---- MODULE Spec2Model ----
(***************************************************************************)
(* Model of the useLightRAG hook (apps/web/src/features/rag/hooks/         *)
(* use-lightrag.tsx): the document catalog kept in React state, the list   *)
(* fetches that replace it, the two submit entry points, the timers they   *)
(* set and the track-status polling of checkUploadComplete.                *)
(*                                                                         *)
(* One step of the model is one run-to-completion turn of the JavaScript   *)
(* event loop: the start of a call up to its first await on the network, a *)
(* network response together with the continuation that awaits it, or a    *)
(* timer callback up to its first await.                                   *)
(***************************************************************************)
EXTENDS Integers, Sequences, FiniteSets, TLC

\* ---------------------------------------------------------------- bounds
MaxUploads == 1
MaxRefreshes == 2
MaxCount == 1
MaxClears == 1
MaxDeletes == 1
PollsUntilTerminal == 3
MaxBatch == 2
MaxAgents == 2
MaxValue == 2
Submissions == 2

\* ------------------------------------------------------ program constants
\* maxAttempts of checkUploadComplete; the setTimeout delays, in seconds.
DefaultMaxAttempts == 10
DelayedRefreshDelay == 1
FirstCheckDelay == 3
RecheckDelay == 2
\* the setTimeout delay of deleteDocument, in seconds.
DeleteRefreshDelay == 1

UploadIds == 1..MaxUploads
\* The submissions of the concurrent scenario, and the calls the hook has room for.
TwoIds == 1..Submissions
\* The files of a batch handed to handleFileUpload.
BatchIds == 1..MaxBatch
Slots == UploadIds \cup TwoIds \cup BatchIds
ClearIds == 1..MaxClears
DeleteIds == 1..MaxDeletes

\* --------------------------------------------------------------- documents
Doc(id, st) == [id |-> id, status |-> st]

\* The list-status bodies the backend may answer with.  A body is the
\* `statuses` object: a function from the partitions it carries to document
\* lists; `processing` and `failed` are optional, and the backend also has
\* a `pending` partition.
ListResponses ==
  { [processed |-> <<>>],
    [processed |-> <<>>, processing |-> <<Doc("d1", "processing")>>],
    [processed |-> <<Doc("d1", "processed")>>, failed |-> <<Doc("d2", "failed")>>],
    [processed |-> <<Doc("d1", "processed")>>,
     processing |-> <<Doc("d2", "processing")>>,
     pending |-> <<Doc("d3", "pending")>>] }

\* The ids of a document list.
Ids(docs) == {docs[i].id : i \in 1..Len(docs)}

\* `statuses.<name> || []`
Part(statuses, name) == IF name \in DOMAIN statuses THEN statuses[name] ELSE <<>>

\* allDocs of listDocuments: processed, then processing, then failed.
AllDocs(statuses) ==
  Part(statuses, "processed") \o Part(statuses, "processing") \o Part(statuses, "failed")

\* currentProcessing of listDocuments: the ids of the processing partition.
CurrentProcessingAll(statuses) ==
  [i \in 1..Len(AllDocs(statuses)) |-> AllDocs(statuses)[i].id]

CurrentProcessing(statuses) ==
  [i \in 1..Len(Part(statuses, "processing")) |-> Part(statuses, "processing")[i].id]

\* ------------------------------------------------------------ track status
StatusKeys == {"processed", "processing", "pending", "failed"}

\* status_summary of a track-status body: a count per partition, or no
\* summary at all (the empty function).
Summaries == [StatusKeys -> 0..MaxCount] \cup {<<>>}

\* `data.status_summary?.<key>` compared with a number: undefined behaves as 0.
Count(s, key) == IF key \in DOMAIN s THEN s[key] ELSE 0

\* isComplete with the negation of `processing` lost.
isCompleteNoNegation(s) == Count(s, "processed") > 0 /\ Count(s, "processing") > 0

isComplete(s) == Count(s, "processed") > 0 /\ Count(s, "processing") = 0

isStillProcessingOrPending(s) == Count(s, "processing") > 0 \/ Count(s, "pending") > 0

isStillProcessing(s) == Count(s, "processing") > 0

\* The branch checkUploadComplete takes on a parsed status body.
CheckBranchNoBudget(s, maxAttempts) ==
  IF isComplete(s) THEN "complete"
  ELSE IF isStillProcessing(s) THEN "retry"
  ELSE "unclear"

CheckBranch(s, maxAttempts) ==
  IF isComplete(s) THEN "complete"
  ELSE IF isStillProcessing(s) /\ maxAttempts > 0 THEN "retry"
  ELSE "unclear"

\* What the status fetch can come back with.
StatusOutcomes ==
  { [http |-> "throw", summary |-> <<>>], [http |-> "notok", summary |-> <<>>] }
  \cup { [http |-> "ok", summary |-> s] : s \in Summaries }

\* ------------------------------------------------------------- submissions
NullResult == [status |-> "null", track |-> FALSE]

\* What the submit fetch can come back with: a network or parse failure, or
\* an HTTP response (ok or not) whose body is a LightRAGUploadResponse.
UploadOutcomes ==
  { [http |-> "throw", status |-> "null", track |-> FALSE] }
  \cup [http : {"ok", "notok"}, status : {"success", "duplicated", "error"}, track : BOOLEAN]

\* UploadBranch testing `result.status !== "error"` for the success branch.
UploadBranchDupAsSuccess(kind, out) ==
  IF out.http # "ok" THEN "failed"
  ELSE IF out.status # "error" THEN "success"
  ELSE "silent"

\* UploadBranch without the `!response.ok` test: the body decides alone.
UploadBranchNoOkCheck(kind, out) ==
  IF out.http = "throw" THEN "failed"
  ELSE IF out.status = "success" THEN "success"
  ELSE IF out.status = "duplicated" /\ kind = "file" THEN "warn"
  ELSE "silent"

\* The branch uploadFile / uploadText take once the fetch has settled.
UploadBranch(kind, out) ==
  IF out.http # "ok" THEN "failed"
  ELSE IF out.status = "success" THEN "success"
  ELSE IF out.status = "duplicated" /\ kind = "file" THEN "warn"
  ELSE "silent"

\* What uploadFile / uploadText return: the parsed body, or null from the catch.
UploadResultNullUnlessSuccess(branch, out) ==
  IF branch = "success" THEN [status |-> out.status, track |-> out.track] ELSE NullResult

UploadResult(branch, out) ==
  IF branch = "failed" THEN NullResult ELSE [status |-> out.status, track |-> out.track]

\* Where a submit call stands once its awaited immediate refresh has settled
\* and the timers are set: it returns, the timers run without it.
AfterImmediateRefreshAwaitsCheck(track) == IF track THEN "reconciling" ELSE "returned"

AfterImmediateRefresh(track) == "returned"

\* documents after a successful list-status response: setDocuments([...allDocs])
\* takes nothing from the previous catalog.
ReplaceCatalogKeepsOldOnEmpty(prev, statuses) ==
  IF AllDocs(statuses) = <<>> THEN prev ELSE AllDocs(statuses)

ReplaceCatalogMerges(prev, statuses) == prev \o AllDocs(statuses)

ReplaceCatalog(prev, statuses) == AllDocs(statuses)

\* processingDocuments after the delete-all request of clearDocuments has
\* settled: clearDocuments has no setProcessingDocuments call.
IndicatorAfterClearResets(ok, ids) == IF ok THEN <<>> ELSE ids

IndicatorAfterClear(ok, ids) == ids

\* The timer checkUploadComplete sets when the document is still processing.
RetryTimerShared(u, attempts) ==
  [kind |-> "check", u |-> 1, attempts |-> attempts - 1, due |-> RecheckDelay]

RetryTimer(u, attempts) ==
  [kind |-> "check", u |-> u, attempts |-> attempts - 1, due |-> RecheckDelay]

\* The notification a status response makes checkUploadComplete show: none,
\* on every branch.
CheckToastOnGivingUp(branch) ==
  IF branch \in {"failed", "unclear"} THEN <<"error">> ELSE <<>>

CheckToast(branch) == <<>>

\* The sequence once the awaited listDocuments of checkUploadComplete has
\* settled: the call ends.
AfterCheckRefreshPollsAgain(c) == [c EXCEPT !.state = "querying", !.queries = @ + 1]

AfterCheckRefresh(c) == [c EXCEPT !.state = "done"]

\* What listDocuments returns: allDocs, or [] from the catch.
ListReturnKeepsLast(ok, statuses, last) == IF ok THEN AllDocs(statuses) ELSE last

ListReturn(ok, statuses, last) == IF ok THEN AllDocs(statuses) ELSE <<>>

\* documents after the delete-all request of clearDocuments has settled.
DocsAfterClearOptimistic(ok, docs) == <<>>

DocsAfterClear(ok, docs) == IF ok THEN <<>> ELSE docs

\* --------------------------------------------------------------- request paths
\* A URL path is the sequence of its segments.
ProxyPrefix == <<"api", "rag">>

\* getApiUrlOrThrow: new URL("/api/rag", origin).
getApiUrlOrThrow == ProxyPrefix

\* `${window.location.origin}/api/rag/<tail>`
OriginPath(tail) == <<"api", "rag">> \o tail

\* url.pathname = <path>: the assignment replaces the whole path of the URL.
SetPathname(url, path) == path

TrackIds == {"t1", "t2"}

\* The operations that fetch, each with the identifier that goes into its
\* path, if any.
Operations ==
  {<<name, "">> : name \in {"health", "list", "submit-file", "submit-text", "delete",
                            "delete-all", "query"}}
  \cup {<<"status", t>> : t \in TrackIds}

\* The path of the request each operation of the hook fetches.
RequestPath(op) ==
  CASE op[1] = "health"      -> OriginPath(<<"health">>)
    [] op[1] = "list"        -> OriginPath(<<"documents">>)
    [] op[1] = "submit-file" -> OriginPath(<<"documents", "upload">>)
    [] op[1] = "submit-text" -> OriginPath(<<"documents", "text">>)
    [] op[1] = "delete"      -> SetPathname(getApiUrlOrThrow, <<"documents", "delete_document">>)
    [] op[1] = "delete-all"  -> OriginPath(<<"documents">>)
    [] op[1] = "query"       -> OriginPath(<<"query">>)
    [] op[1] = "status"      ->
         SetPathname(getApiUrlOrThrow, <<"documents", "track_status", op[2]>>)

\* The route of proxyToRag: a path that begins with /api/rag.
UnderProxy(path) == Len(path) >= Len(ProxyPrefix) /\ SubSeq(path, 1, Len(ProxyPrefix)) = ProxyPrefix

VARIABLES
  documents,            \* useState documents: the catalog
  processingDocuments,  \* useState processingDocuments
  documentsLoading,     \* useState documentsLoading
  uploading,            \* useState uploading
  fetches,              \* list-status fetches in flight, with who awaits them
  nextReq,              \* start number of the next list-status fetch
  uiRefreshes,          \* listDocuments calls made by the component so far
  uploads,              \* per submission: entry point, position, what it returned
  timers,               \* pending setTimeout callbacks
  checks,               \* per tracking handle: the checkUploadComplete chain
  toasted,              \* notifications surfaced by the latest step
  newest,               \* the latest-started list fetch that completed
  anyListFailed,        \* some list fetch failed
  clears,               \* per clearDocuments call: position and what it returned
  deletes,              \* per deleteDocument call: position, id and what it returned
  server,               \* the server's document of each submission
  snaps,                \* per list fetch in flight: the list the server answers with
  returned,             \* what the listDocuments call that settled last returned
  clearFrom,            \* per clearDocuments call: the request number at its start
  requests,             \* the backend requests issued so far: operation and path
  batch,                \* handleFileUpload: position, file index, size, successCount
  configsByAgentId,     \* the config store
  configLog             \* per agent: the defaults installed and the last call

vars == <<documents, processingDocuments, documentsLoading, uploading, fetches, nextReq,
          uiRefreshes, uploads, timers, checks, toasted, newest, anyListFailed,
          clears, deletes, server, snaps, returned, clearFrom,
          requests, batch, configsByAgentId, configLog>>

catalogVars == <<documents, processingDocuments>>

\* The calls that are not part of a submission.
opVars == <<clears, deletes>>

\* The server side of the concurrent scenario.
serverVars == <<server, snaps>>

\* What an observer of the calls records.
appVars == <<requests, batch, configsByAgentId, configLog>>

histVars == <<returned, clearFrom, appVars>>

IdleBatch == [pc |-> "idle", i |-> 0, k |-> 0, successCount |-> 0, extra |-> 0]

\* The agents of the config store; an agent without entry, and without record.
AgentIds == 1..MaxAgents
Keys == {"k1", "k2"}
Values == 1..MaxValue
\* 0 stands for a key the object does not have (a configuration without default).
Missing == 0
NoKeys == [k \in Keys |-> Missing]
\* An entry of configsByAgentId: its ordinary keys, and its __defaultValues key.
Absent == [present |-> FALSE, vals |-> NoKeys, hasDefaults |-> FALSE, defaultValues |-> NoKeys]
NoLog == [installed |-> FALSE, defaults |-> NoKeys, last |-> "none"]

IdleOp == [pc |-> "idle", id |-> "none", result |-> "none"]

IdleUpload == [kind |-> "none", pc |-> "idle", http |-> "none", result |-> NullResult]

NoCheck ==
  [state |-> "none", attempts |-> 0, queries |-> 0, refreshes |-> 0, streak |-> 0,
   outcome |-> "none"]

Init ==
  /\ documents = <<>>
  /\ processingDocuments = <<>>
  /\ documentsLoading = FALSE
  /\ uploading = FALSE
  /\ fetches = {}
  /\ nextReq = 1
  /\ uiRefreshes = 0
  /\ uploads = [u \in Slots |-> IdleUpload]
  /\ timers = {}
  /\ checks = [u \in Slots |-> NoCheck]
  /\ toasted = <<>>
  /\ newest = [req |-> 0, docs |-> <<>>]
  /\ anyListFailed = FALSE
  /\ clears = [c \in ClearIds |-> IdleOp]
  /\ deletes = [d \in DeleteIds |-> IdleOp]
  /\ server = [u \in TwoIds |-> "absent"]
  /\ snaps = {}
  /\ returned = <<>>
  /\ clearFrom = [c \in ClearIds |-> 0]
  /\ requests = {}
  /\ batch = IdleBatch
  /\ configsByAgentId = [a \in AgentIds |-> Absent]
  /\ configLog = [a \in AgentIds |-> NoLog]

\* toast.error / toast.warning / toast.success: one notification surfaced.
Toast(level) == <<level>>

NoToast == <<>>

\* listDocuments up to its await on fetch: the loading flag is raised and the
\* request leaves; `cont` is the caller that awaits the result.
StartFetch(cont) ==
  /\ documentsLoading' = TRUE
  /\ fetches' = fetches \cup {[req |-> nextReq, kind |-> cont[1], u |-> cont[2]]}
  /\ nextReq' = nextReq + 1

NoFetch == UNCHANGED <<documentsLoading, fetches, nextReq>>

\* refresh() called by the component (mount effect, Refresh button, upload handlers).
Refresh ==
  /\ uiRefreshes < MaxRefreshes
  /\ uiRefreshes' = uiRefreshes + 1
  /\ StartFetch(<<"ui", 0>>)
  /\ toasted' = NoToast
  /\ UNCHANGED <<catalogVars, uploading, uploads, timers, checks, newest, anyListFailed>>

\* uploadFile / uploadText up to the await on the POST.
UploadStart(u, kind) ==
  /\ uploads[u].pc = "idle"
  /\ \A v \in Slots : v < u => uploads[v].pc # "idle"
  /\ uploads' = [uploads EXCEPT ![u] = [@ EXCEPT !.kind = kind, !.pc = "posting"]]
  /\ uploading' = TRUE
  /\ NoFetch
  /\ toasted' = NoToast
  /\ UNCHANGED <<catalogVars, uiRefreshes, timers, checks, newest, anyListFailed>>

\* The POST settles: the rest of uploadFile / uploadText up to the await on
\* the immediate listDocuments, or up to the return.
UploadRespond(u, out) ==
  /\ uploads[u].pc = "posting"
  /\ LET branch == UploadBranch(uploads[u].kind, out) IN
     /\ uploads' = [uploads EXCEPT ![u] =
          [@ EXCEPT !.http = out.http,
                    !.pc = IF branch = "success" THEN "refreshing" ELSE "returned",
                    !.result = UploadResult(branch, out)]]
     /\ toasted' = CASE branch = "failed" -> Toast("error")
                     [] branch = "warn" -> Toast("warning")
                     [] OTHER -> NoToast
     /\ IF branch = "success"
          THEN StartFetch(<<"upload", u>>) /\ UNCHANGED uploading
          ELSE NoFetch /\ uploading' = FALSE
  /\ UNCHANGED <<catalogVars, uiRefreshes, timers, checks, newest, anyListFailed>>

\* The timers uploadFile / uploadText set after the immediate refresh.
UploadTimersSwapped(u) ==
  {[kind |-> "refresh", u |-> u, attempts |-> 0, due |-> FirstCheckDelay]}
  \cup (IF uploads[u].result.track
          THEN {[kind |-> "check", u |-> u, attempts |-> DefaultMaxAttempts,
                 due |-> DelayedRefreshDelay]}
          ELSE {})

UploadTimersAlwaysChecks(u) ==
  {[kind |-> "refresh", u |-> u, attempts |-> 0, due |-> DelayedRefreshDelay],
   [kind |-> "check", u |-> u, attempts |-> DefaultMaxAttempts, due |-> FirstCheckDelay]}

UploadTimers(u) ==
  {[kind |-> "refresh", u |-> u, attempts |-> 0, due |-> DelayedRefreshDelay]}
  \cup (IF uploads[u].result.track
          THEN {[kind |-> "check", u |-> u, attempts |-> DefaultMaxAttempts,
                 due |-> FirstCheckDelay]}
          ELSE {})

\* A list-status fetch settles: the rest of listDocuments, and then the
\* continuation of whoever awaited it.
ListRespond(f, ok, statuses) ==
  /\ f \in fetches
  /\ fetches' = fetches \ {f}
  /\ documentsLoading' = FALSE
  /\ IF ok
       THEN /\ processingDocuments' = CurrentProcessing(statuses)
            /\ documents' = ReplaceCatalog(documents, statuses)
            /\ newest' = IF f.req > newest.req
                           THEN [req |-> f.req, docs |-> AllDocs(statuses)]
                           ELSE newest
            /\ toasted' = NoToast
            /\ UNCHANGED anyListFailed
       ELSE /\ toasted' = Toast("error")
            /\ anyListFailed' = TRUE
            /\ UNCHANGED <<catalogVars, newest>>
  /\ CASE f.kind = "upload" ->
            /\ timers' = timers \cup UploadTimers(f.u)
            /\ uploads' = [uploads EXCEPT
                 ![f.u].pc = AfterImmediateRefresh(uploads[f.u].result.track)]
            /\ uploading' = FALSE
            /\ checks' = IF uploads[f.u].result.track
                           THEN [checks EXCEPT ![f.u].state = "waiting",
                                               ![f.u].attempts = DefaultMaxAttempts]
                           ELSE checks
       [] f.kind = "check" ->
            /\ checks' = [checks EXCEPT ![f.u] = AfterCheckRefresh(@)]
            /\ UNCHANGED <<timers, uploads, uploading>>
       [] OTHER -> UNCHANGED <<timers, uploads, uploading, checks>>
  /\ UNCHANGED <<nextReq, uiRefreshes>>

\* A timer callback runs: the delayed refresh, or checkUploadComplete up to
\* its await on the status fetch.
TimerFire(t) ==
  /\ t \in timers
  /\ t.due = 0
  /\ timers' = timers \ {t}
  /\ IF t.kind \in {"refresh", "delrefresh"}
       THEN /\ StartFetch(<<IF t.kind = "refresh" THEN "timer" ELSE "deltimer", t.u>>)
            /\ UNCHANGED checks
       ELSE /\ checks' = [checks EXCEPT ![t.u] =
                 [@ EXCEPT !.state = "querying", !.attempts = t.attempts,
                           !.queries = @ + 1]]
            /\ NoFetch
  /\ toasted' = NoToast
  /\ UNCHANGED <<catalogVars, uploading, uiRefreshes, uploads, newest, anyListFailed>>

\* Time passes: every pending timer comes one unit closer.
Tick ==
  /\ timers # {}
  /\ \A t \in timers : t.due > 0
  /\ timers' = {[t EXCEPT !.due = @ - 1] : t \in timers}
  /\ toasted' = NoToast
  /\ UNCHANGED <<catalogVars, documentsLoading, uploading, fetches, nextReq, uiRefreshes,
                 uploads, checks, newest, anyListFailed>>

\* The status fetch settles: the rest of checkUploadComplete up to its await
\* on listDocuments, or up to its return.
StatusRespond(u, out) ==
  /\ checks[u].state = "querying"
  /\ LET c == checks[u]
         branch == IF out.http = "ok" THEN CheckBranch(out.summary, c.attempts)
                   ELSE "failed"
         streak == IF out.http = "ok" /\ isStillProcessing(out.summary)
                     THEN c.streak + 1 ELSE 0 IN
     CASE branch = "failed" ->
            /\ checks' = [checks EXCEPT ![u] =
                 [c EXCEPT !.state = "done", !.outcome = "failed", !.streak = streak]]
            /\ NoFetch
            /\ UNCHANGED timers
       [] branch = "retry" ->
            /\ checks' = [checks EXCEPT ![u] =
                 [c EXCEPT !.state = "waiting", !.attempts = c.attempts - 1,
                           !.streak = streak]]
            /\ timers' = timers \cup {RetryTimer(u, c.attempts)}
            /\ NoFetch
       [] OTHER ->
            /\ checks' = [checks EXCEPT ![u] =
                 [c EXCEPT !.state = "refreshing", !.outcome = branch,
                           !.refreshes = @ + 1, !.streak = streak]]
            /\ StartFetch(<<"check", u>>)
            /\ UNCHANGED timers
  /\ toasted' = CheckToast(IF out.http = "ok"
                             THEN CheckBranch(out.summary, checks[u].attempts)
                             ELSE "failed")
  /\ UNCHANGED <<catalogVars, uploading, uiRefreshes, uploads, newest, anyListFailed>>

\* clearDocuments up to the await on the DELETE; the Clear All button is
\* shown while the catalog holds documents.
ClearStart(c) ==
  /\ clears[c].pc = "idle"
  /\ \A b \in ClearIds : b < c => clears[b].pc # "idle"
  /\ documents # <<>>
  /\ clears' = [clears EXCEPT ![c].pc = "deleting"]
  /\ toasted' = NoToast
  /\ NoFetch
  /\ UNCHANGED <<catalogVars, uploading, uiRefreshes, uploads, timers, checks, newest,
                 anyListFailed, deletes>>

\* The delete-all request settles: the rest of clearDocuments.
ClearRespond(c, ok) ==
  /\ clears[c].pc = "deleting"
  /\ clears' = [clears EXCEPT ![c].pc = "done",
                              ![c].result = IF ok THEN "true" ELSE "false"]
  /\ documents' = DocsAfterClear(ok, documents)
  /\ toasted' = IF ok THEN Toast("success") ELSE Toast("error")
  /\ NoFetch
  /\ processingDocuments' = IndicatorAfterClear(ok, processingDocuments)
  /\ UNCHANGED <<uploading, uiRefreshes, uploads, timers, checks, newest, anyListFailed,
                 deletes>>

\* The timer deleteDocument sets once the delete is acknowledged.
DeleteTimersAlways(d, ok) ==
  {[kind |-> "delrefresh", u |-> d, attempts |-> 0, due |-> DeleteRefreshDelay]}

DeleteTimers(d, ok) ==
  IF ok THEN {[kind |-> "delrefresh", u |-> d, attempts |-> 0, due |-> DeleteRefreshDelay]}
  ELSE {}

\* deleteDocument up to the await on the DELETE; the button belongs to a
\* listed document.
DeleteStart(d, id) ==
  /\ deletes[d].pc = "idle"
  /\ \A b \in DeleteIds : b < d => deletes[b].pc # "idle"
  /\ id \in Ids(documents)
  /\ deletes' = [deletes EXCEPT ![d].pc = "deleting", ![d].id = id]
  /\ toasted' = NoToast
  /\ NoFetch
  /\ UNCHANGED <<catalogVars, uploading, uiRefreshes, uploads, timers, checks, newest,
                 anyListFailed, clears>>

\* The delete request settles: the rest of deleteDocument.
DeleteRespond(d, ok) ==
  /\ deletes[d].pc = "deleting"
  /\ deletes' = [deletes EXCEPT ![d].pc = "done",
                                ![d].result = IF ok THEN "true" ELSE "false"]
  /\ timers' = timers \cup DeleteTimers(d, ok)
  /\ toasted' = IF ok THEN Toast("success") ELSE Toast("error")
  /\ NoFetch
  /\ UNCHANGED <<catalogVars, uploading, uiRefreshes, uploads, checks, newest,
                 anyListFailed, clears>>

UiRefresh == Refresh /\ UNCHANGED <<opVars, serverVars, histVars>>

Submit ==
  /\ \E u \in UploadIds, kind \in {"file", "text"} : UploadStart(u, kind)
  /\ UNCHANGED <<opVars, serverVars, histVars>>

SubmitSettles ==
  /\ \E u \in UploadIds, out \in UploadOutcomes : UploadRespond(u, out)
  /\ UNCHANGED <<opVars, serverVars, histVars>>

ListSucceeds ==
  /\ \E f \in fetches, statuses \in ListResponses : ListRespond(f, TRUE, statuses)
  /\ UNCHANGED <<opVars, serverVars, histVars>>

ListFails ==
  /\ \E f \in fetches : ListRespond(f, FALSE, [processed |-> <<>>])
  /\ UNCHANGED <<opVars, serverVars, histVars>>

TimerFires ==
  /\ \E t \in timers : TimerFire(t)
  /\ UNCHANGED <<opVars, serverVars, histVars>>

TimePasses == Tick /\ UNCHANGED <<opVars, serverVars, histVars>>

StatusSettles ==
  /\ \E u \in UploadIds, out \in StatusOutcomes : StatusRespond(u, out)
  /\ UNCHANGED <<opVars, serverVars, histVars>>

Clear ==
  /\ \E c \in ClearIds : ClearStart(c)
  /\ UNCHANGED <<serverVars, histVars>>

ClearSettles ==
  /\ \E c \in ClearIds, ok \in BOOLEAN : ClearRespond(c, ok)
  /\ UNCHANGED <<serverVars, histVars>>

Remove ==
  /\ \E d \in DeleteIds, id \in Ids(documents) : DeleteStart(d, id)
  /\ UNCHANGED <<serverVars, histVars>>

RemoveSettles ==
  /\ \E d \in DeleteIds, ok \in BOOLEAN : DeleteRespond(d, ok)
  /\ UNCHANGED <<serverVars, histVars>>

\* The hook under submissions and refreshes.
Next ==
  \/ UiRefresh
  \/ Submit
  \/ SubmitSettles
  \/ ListSucceeds
  \/ ListFails
  \/ TimerFires
  \/ TimePasses
  \/ StatusSettles

Spec == Init /\ [][Next]_vars

\* The hook under refreshes, clear and remove: the catalog operations.
NextCatalog ==
  \/ UiRefresh
  \/ ListSucceeds
  \/ ListFails
  \/ Clear
  \/ ClearSettles
  \/ Remove
  \/ RemoveSettles
  \/ TimerFires
  \/ TimePasses

SpecCatalog == Init /\ [][NextCatalog]_vars

\* The hook under submissions, clear and remove, the component never
\* refreshing on its own.
NextAll ==
  \/ Submit
  \/ SubmitSettles
  \/ ListSucceeds
  \/ ListFails
  \/ TimerFires
  \/ TimePasses
  \/ StatusSettles
  \/ Clear
  \/ ClearSettles
  \/ Remove
  \/ RemoveSettles

SpecAll == Init /\ [][NextAll]_vars

\* ------------------------------------------------- two concurrent submissions
\* The server of the scenario: it creates the document of a submission when
\* it accepts the upload, lists it as processing, and later as processed.

DocId(u) == <<"d1", "d2", "d3", "d4">>[u]

\* The documents of submissions 1..n the server holds with status st, in order.
RECURSIVE Held(_, _, _)
Held(srv, st, n) ==
  IF n = 0 THEN <<>>
  ELSE Held(srv, st, n - 1) \o (IF srv[n] = st THEN <<Doc(DocId(n), st)>> ELSE <<>>)

\* The list-status response of the server in state srv.
ServerView(srv) ==
  [processed |-> Held(srv, "processed", Submissions),
   processing |-> Held(srv, "processing", Submissions)]

\* The upload response of the scenario: accepted, with a tracking handle.
Accepted == [http |-> "ok", status |-> "success", track |-> TRUE]

\* The track-status response for a document that is processed.
TrackProcessed ==
  [http |-> "ok",
   summary |-> [k \in StatusKeys |-> IF k = "processed" THEN 1 ELSE 0]]

\* A list request is answered from the server's state at the time the
\* request is made; the answer travels for as long as it likes.
SnapFetches ==
  snaps' = {s \in snaps : s.req \in {f.req : f \in fetches'}}
             \cup {[req |-> f.req, statuses |-> ServerView(server')] : f \in fetches' \ fetches}

\* The answer to list fetch f.
Answer(f) == (CHOOSE s \in snaps : s.req = f.req).statuses

SubmitTwo ==
  /\ \E u \in TwoIds : UploadStart(u, "file")
  /\ UNCHANGED <<opVars, serverVars, histVars>>

\* The server accepts the upload, creates its document and answers.
AcceptTwo ==
  /\ \E u \in TwoIds :
       /\ UploadRespond(u, Accepted)
       /\ server' = [server EXCEPT ![u] = "processing"]
  /\ SnapFetches
  /\ UNCHANGED <<opVars, histVars>>

\* The server finishes processing a document.
ServerProcesses ==
  /\ \E u \in TwoIds :
       /\ server[u] = "processing"
       /\ server' = [server EXCEPT ![u] = "processed"]
  /\ toasted' = NoToast
  /\ UNCHANGED <<catalogVars, documentsLoading, uploading, fetches, nextReq, uiRefreshes,
                 uploads, timers, checks, newest, anyListFailed, opVars, snaps, histVars>>

ListArrivesTwo ==
  /\ \E f \in fetches : ListRespond(f, TRUE, Answer(f))
  /\ UNCHANGED <<opVars, server, histVars>>
  /\ SnapFetches

TimerFiresTwo ==
  /\ \E t \in timers : TimerFire(t)
  /\ UNCHANGED <<opVars, server, histVars>>
  /\ SnapFetches

\* The status query of a sequence is answered once the document is processed.
ResolveTwo ==
  /\ \E u \in TwoIds :
       /\ server[u] = "processed"
       /\ StatusRespond(u, TrackProcessed)
  /\ UNCHANGED <<opVars, server, histVars>>
  /\ SnapFetches

\* The hook under two submissions that are accepted and whose sequences
\* resolve at their first status query, every refresh succeeding.
NextTwo ==
  \/ SubmitTwo
  \/ AcceptTwo
  \/ ServerProcesses
  \/ ListArrivesTwo
  \/ TimerFiresTwo
  \/ TimePasses
  \/ ResolveTwo

SpecTwo == Init /\ [][NextTwo]_vars

\* The track-status response for a document that is still processing.
TrackProcessing ==
  [http |-> "ok",
   summary |-> [k \in StatusKeys |-> IF k = "processing" THEN 1 ELSE 0]]

\* The status query of a sequence is answered while the document is still
\* being processed.
StillProcessingTwo ==
  /\ \E u \in TwoIds :
       /\ server[u] = "processing"
       /\ StatusRespond(u, TrackProcessing)
  /\ UNCHANGED <<opVars, server, histVars>>
  /\ SnapFetches

\* The hook under two accepted submissions whose sequences poll for as long
\* as the server takes to process the documents.
NextTwoPolling ==
  \/ SubmitTwo
  \/ AcceptTwo
  \/ ServerProcesses
  \/ ListArrivesTwo
  \/ TimerFiresTwo
  \/ TimePasses
  \/ ResolveTwo
  \/ StillProcessingTwo

SpecTwoPolling == Init /\ [][NextTwoPolling]_vars

\* ------------------------------------------------------ one tracked submission
\* The server accepts every upload with a tracking handle.
AcceptTracked ==
  /\ \E u \in UploadIds : UploadRespond(u, Accepted)
  /\ UNCHANGED <<opVars, serverVars, histVars>>

\* The hook under submissions that are accepted with a tracking handle, the
\* status queries and list fetches answered in any way.
NextSequence ==
  \/ Submit
  \/ AcceptTracked
  \/ ListSucceeds
  \/ ListFails
  \/ TimerFires
  \/ TimePasses
  \/ StatusSettles

\* Timers fire, time passes, and every status query is answered.
SpecSequence ==
  /\ Init
  /\ [][NextSequence]_vars
  /\ WF_vars(TimerFires)
  /\ WF_vars(TimePasses)
  /\ WF_vars(StatusSettles)

\* ------------------------------------------------------- one text submission
\* A single text submission whose document the server enrolls a moment after
\* accepting it and then processes into one chunk.

\* The one submission of the trace.
TraceHandle == CHOOSE u \in UploadIds : \A v \in UploadIds : u <= v

\* The document of the submission as the server lists it.
NoteDoc(st, chunks) == [id |-> DocId(TraceHandle), status |-> st, chunks_count |-> chunks]

\* The list-status answers of the trace: nothing to the immediate refresh,
\* the document once the sequence has resolved as processed with one chunk,
\* and as processing before that.
TraceAnswer(f) ==
  IF f.kind = "upload" THEN [processed |-> <<>>]
  ELSE IF f.kind = "check" /\ checks[f.u].outcome = "complete"
    THEN [processed |-> <<NoteDoc("processed", 1)>>]
  ELSE [processed |-> <<>>, processing |-> <<NoteDoc("processing", 0)>>]

SubmitText ==
  /\ UploadStart(TraceHandle, "text")
  /\ UNCHANGED <<opVars, serverVars, histVars>>

AcceptText ==
  /\ UploadRespond(TraceHandle, Accepted)
  /\ UNCHANGED <<opVars, serverVars, histVars>>

\* The list answers arrive in the order of their requests.
ListArrivesInOrder ==
  /\ \E f \in fetches :
       /\ \A g \in fetches : f.req <= g.req
       /\ ListRespond(f, TRUE, TraceAnswer(f))
  /\ UNCHANGED <<opVars, serverVars, histVars>>

\* The status query is answered "processing".
ReportsProcessing ==
  /\ StatusRespond(TraceHandle, TrackProcessing)
  /\ UNCHANGED <<opVars, serverVars, histVars>>

\* The status query is answered "processed", at the third poll at the earliest.
ReportsProcessed ==
  /\ checks[TraceHandle].queries >= PollsUntilTerminal
  /\ StatusRespond(TraceHandle, TrackProcessed)
  /\ UNCHANGED <<opVars, serverVars, histVars>>

NextTrace ==
  \/ SubmitText
  \/ AcceptText
  \/ ListArrivesInOrder
  \/ TimerFires
  \/ TimePasses
  \/ ReportsProcessing
  \/ ReportsProcessed

SpecTrace == Init /\ [][NextTrace]_vars

\* ------------------------------------------------------ the observed catalog
\* Refreshes and clears, with what each listDocuments call returned and the
\* request number at which each clearDocuments call began recorded.

ListSucceedsObserved ==
  /\ \E f \in fetches, statuses \in ListResponses :
       /\ ListRespond(f, TRUE, statuses)
       /\ returned' = ListReturn(TRUE, statuses, returned)
  /\ UNCHANGED <<opVars, serverVars, clearFrom, appVars>>

ListFailsObserved ==
  /\ \E f \in fetches :
       /\ ListRespond(f, FALSE, [processed |-> <<>>])
       /\ returned' = ListReturn(FALSE, [processed |-> <<>>], returned)
  /\ UNCHANGED <<opVars, serverVars, clearFrom, appVars>>

ClearObserved ==
  /\ \E c \in ClearIds :
       /\ ClearStart(c)
       /\ clearFrom' = [clearFrom EXCEPT ![c] = nextReq]
  /\ UNCHANGED <<serverVars, returned, appVars>>

NextObserved ==
  \/ UiRefresh
  \/ ListSucceedsObserved
  \/ ListFailsObserved
  \/ ClearObserved
  \/ ClearSettles

SpecObserved == Init /\ [][NextObserved]_vars

\* ------------------------------------------------------------- backend requests
\* An operation of the hook issues its request.
Issue(op) ==
  /\ requests' = requests \cup {[op |-> op, path |-> RequestPath(op)]}
  /\ UNCHANGED <<documents, processingDocuments, documentsLoading, uploading, fetches,
                 nextReq, uiRefreshes, uploads, timers, checks, toasted, newest,
                 anyListFailed, opVars, serverVars, returned, clearFrom, batch,
                 configsByAgentId, configLog>>

Issues == \E op \in Operations : Issue(op)

SpecRequests == Init /\ [][Issues]_vars

\* ------------------------------------------------------------ a batch of files
\* handleFileUpload: the files are uploaded in a loop that awaits each
\* uploadFile call; the continuation after an await runs before any other
\* callback.

\* `if (successCount > 0)`: the forced refresh after the loop.
ExtraRefreshAlways(successCount) == TRUE

ExtraRefresh(successCount) == successCount > 0

\* The awaited uploadFile call has returned and the loop has yet to go on.
ContinuationPending == batch.pc = "awaiting" /\ uploads[batch.i].pc = "returned"

batchFrame == <<opVars, serverVars, returned, clearFrom, requests, configsByAgentId, configLog>>

\* The handler is called with k files: the first uploadFile call up to its await.
BatchStart(k) ==
  /\ batch.pc = "idle"
  /\ UploadStart(1, "file")
  /\ batch' = [batch EXCEPT !.pc = "awaiting", !.i = 1, !.k = k]
  /\ UNCHANGED batchFrame

\* The loop goes on after uploadFile returned: it counts a success, and calls
\* uploadFile for the next file, or leaves the loop and forces a refresh if
\* some upload succeeded.
BatchContinue ==
  /\ ContinuationPending
  /\ LET n == batch.successCount
               + (IF uploads[batch.i].result.status = "success" THEN 1 ELSE 0) IN
     IF batch.i < batch.k
       THEN /\ UploadStart(batch.i + 1, "file")
            /\ batch' = [batch EXCEPT !.i = @ + 1, !.successCount = n]
       ELSE /\ batch' = [batch EXCEPT !.pc = "finished", !.successCount = n,
                                      !.extra = IF ExtraRefresh(n) THEN 1 ELSE 0]
            /\ IF ExtraRefresh(n)
                 THEN StartFetch(<<"ui", 0>>) /\ toasted' = Toast("success")
                 ELSE NoFetch /\ toasted' = NoToast
            /\ UNCHANGED <<catalogVars, uploading, uiRefreshes, uploads, timers, checks,
                           newest, anyListFailed>>
  /\ UNCHANGED batchFrame

BatchStarts == \E k \in BatchIds : BatchStart(k)

BatchUploadSettles ==
  /\ ~ContinuationPending
  /\ \E u \in BatchIds, out \in UploadOutcomes : UploadRespond(u, out)
  /\ UNCHANGED <<opVars, serverVars, histVars>>

BatchListSucceeds == ~ContinuationPending /\ ListSucceeds

BatchListFails == ~ContinuationPending /\ ListFails

BatchTimerFires == ~ContinuationPending /\ TimerFires

BatchTimePasses == ~ContinuationPending /\ TimePasses

\* The hook under one batch of files, status queries staying unanswered.
NextBatch ==
  \/ BatchStarts
  \/ BatchContinue
  \/ BatchUploadSettles
  \/ BatchListSucceeds
  \/ BatchListFails
  \/ BatchTimerFires
  \/ BatchTimePasses

SpecBatch == Init /\ [][NextBatch]_vars

\* ------------------------------------------------------------ the config store
\* use-config-store.tsx: the zustand store of per-agent configurations.

\* `if (currentState.configsByAgentId[agentId])`: defaults are installed only
\* when the agent has no entry.
SetDefaultAppliesWithoutDefaults(entry) == ~entry.present \/ ~entry.hasDefaults

SetDefaultApplies(entry) == ~entry.present

setDefaultConfig(store, agentId, defaultConfig) ==
  IF SetDefaultApplies(store[agentId])
    THEN [store EXCEPT ![agentId] = [present |-> TRUE, vals |-> defaultConfig,
                                     hasDefaults |-> TRUE, defaultValues |-> defaultConfig]]
    ELSE store

updateConfig(store, agentId, key, value) ==
  [store EXCEPT ![agentId] = [@ EXCEPT !.present = TRUE, !.vals[key] = value]]

resetConfig(store, agentId) ==
  IF ~store[agentId].present \/ ~store[agentId].hasDefaults
    THEN store
    ELSE [store EXCEPT ![agentId] = [present |-> TRUE, vals |-> @.defaultValues,
                                     hasDefaults |-> FALSE, defaultValues |-> NoKeys]]

\* getAgentConfig for the agent's base entry: the entry without __defaultValues.
getAgentConfig(store, agentId) == store[agentId].vals

configFrame ==
  <<documents, processingDocuments, documentsLoading, uploading, fetches, nextReq,
    uiRefreshes, uploads, timers, checks, toasted, newest, anyListFailed, opVars,
    serverVars, returned, clearFrom, requests, batch>>

SetDefaultConfig(agentId, defaultConfig) ==
  /\ configsByAgentId' = setDefaultConfig(configsByAgentId, agentId, defaultConfig)
  /\ configLog' = [configLog EXCEPT ![agentId] =
       IF SetDefaultApplies(configsByAgentId[agentId])
         THEN [installed |-> TRUE, defaults |-> defaultConfig, last |-> "setDefault"]
         ELSE [@ EXCEPT !.last = "setDefault"]]
  /\ UNCHANGED configFrame

UpdateConfig(agentId, key, value) ==
  /\ configsByAgentId' = updateConfig(configsByAgentId, agentId, key, value)
  /\ configLog' = [configLog EXCEPT ![agentId].last = "update"]
  /\ UNCHANGED configFrame

ResetConfig(agentId) ==
  /\ configsByAgentId' = resetConfig(configsByAgentId, agentId)
  /\ configLog' = [configLog EXCEPT ![agentId].last = "reset"]
  /\ UNCHANGED configFrame

ResetStore ==
  /\ configsByAgentId' = [a \in AgentIds |-> Absent]
  /\ configLog' = [a \in AgentIds |-> NoLog]
  /\ UNCHANGED configFrame

SetsDefault == \E a \in AgentIds, d \in [Keys -> Values \cup {Missing}] : SetDefaultConfig(a, d)

Updates == \E a \in AgentIds, k \in Keys, v \in Values : UpdateConfig(a, k, v)

Resets == \E a \in AgentIds : ResetConfig(a)

NextConfig ==
  \/ SetsDefault
  \/ Updates
  \/ Resets
  \/ ResetStore

SpecConfig == Init /\ [][NextConfig]_vars

\* ===================================================================== claims

\* Timers and status queries that belong to tracking handle u.
CheckTimers(u) == {t \in timers : t.kind = "check" /\ t.u = u}

CheckEnded(u) == checks[u].state \in {"refreshing", "done"}

\* C1: once every started refresh has completed, and all of them succeeded,
\* the catalog is the response of the refresh that was started last.
C1_LastStartedWins ==
  (fetches = {} /\ ~anyListFailed /\ newest.req > 0) => documents = newest.docs

\* C2: a sequence that has received DefaultMaxAttempts consecutive "still
\* processing" responses is Exhausted: it has issued exactly that many status
\* queries, polls no more, and has triggered exactly one catalog refresh.
C2_ExhaustedAfterBudget ==
  \A u \in UploadIds :
    checks[u].streak >= DefaultMaxAttempts =>
      /\ CheckEnded(u)
      /\ CheckTimers(u) = {}
      /\ checks[u].queries = DefaultMaxAttempts
      /\ checks[u].refreshes = 1

\* C3: a sequence whose status query failed has stopped polling and has
\* triggered one final catalog refresh.
C3_FailedQueryStillRefreshes ==
  \A u \in UploadIds :
    checks[u].outcome = "failed" =>
      /\ CheckTimers(u) = {}
      /\ checks[u].state # "querying"
      /\ checks[u].refreshes = 1

\* At least one processed document, none in a non-terminal partition.
TerminalSuccess(s) ==
  /\ Count(s, "processed") > 0
  /\ Count(s, "processing") = 0
  /\ Count(s, "pending") = 0

\* C4: a status response with at least one processed document and none in a
\* non-terminal partition makes the sequence Resolved in that step, whatever
\* budget is left: it triggers one catalog refresh and sets no timer; and a
\* Resolved sequence issues no further status query and no further refresh.
C4_TerminalSuccessResolves ==
  [][\A u \in UploadIds :
       /\ \A out \in StatusOutcomes :
            (StatusRespond(u, out) /\ out.http = "ok" /\ TerminalSuccess(out.summary)) =>
              /\ checks'[u].outcome = "complete"
              /\ checks'[u].state = "refreshing"
              /\ checks'[u].refreshes = checks[u].refreshes + 1
              /\ fetches' = fetches \cup {[req |-> nextReq, kind |-> "check", u |-> u]}
              /\ timers' = timers
       /\ checks[u].outcome = "complete" =>
            /\ checks'[u].outcome = "complete"
            /\ checks'[u].queries = checks[u].queries
            /\ checks'[u].refreshes = 1
            /\ checks'[u].state \in {"refreshing", "done"}
            /\ {t \in timers' : t.kind = "check" /\ t.u = u} = {}]_vars

\* C4 witness: a sequence resolved at a later attempt than the first, its
\* final refresh completed.
C4_Witness ==
  \E u \in UploadIds :
    /\ checks[u].outcome = "complete"
    /\ checks[u].state = "done"
    /\ checks[u].queries > 1
    /\ checks[u].attempts > 0

\* Some document of the handle in a non-terminal partition.
NonTerminal(s) == Count(s, "processing") > 0 \/ Count(s, "pending") > 0

\* C5: a status response reporting a document in a non-terminal partition
\* (processing or pending) while attempts remain schedules exactly one further
\* status query after RecheckDelay with the budget one lower, and triggers no
\* catalog refresh in that step.
C5_NonTerminalRetries ==
  [][\A u \in UploadIds, out \in StatusOutcomes :
       (StatusRespond(u, out) /\ out.http = "ok" /\ NonTerminal(out.summary)
          /\ checks[u].attempts > 0) =>
         /\ timers' = timers \cup {[kind |-> "check", u |-> u,
                                    attempts |-> checks[u].attempts - 1,
                                    due |-> RecheckDelay]}
         /\ Cardinality(timers') = Cardinality(timers) + 1
         /\ fetches' = fetches
         /\ checks'[u].refreshes = checks[u].refreshes]_vars

\* C6: at most one list-status fetch is in flight at any time.
C6_AtMostOneFetchInFlight == Cardinality(fetches) <= 1

\* C7: a submit-file call answered "duplicated" returns in that step without
\* touching the catalog or the indicator set and without starting a fetch, a
\* timer or a reconciliation sequence; none is ever started for it later.
C7_DuplicateFileIsInert ==
  [][\A u \in UploadIds :
       /\ \A out \in UploadOutcomes :
            (UploadRespond(u, out) /\ uploads[u].kind = "file"
               /\ out.http = "ok" /\ out.status = "duplicated") =>
              /\ UNCHANGED <<documents, processingDocuments, fetches, nextReq, timers,
                             checks>>
              /\ uploads'[u].pc = "returned"
       /\ (uploads'[u].kind = "file" /\ uploads'[u].result.status = "duplicated") =>
            /\ checks'[u] = NoCheck
            /\ {t \in timers' : t.u = u} = {}
            /\ {f \in fetches' : f.u = u} = {}]_vars

\* C7 witness: a duplicated file submission has returned while the catalog
\* holds documents and a refresh of somebody else is in flight.
C7_Witness ==
  \E u \in UploadIds :
    /\ uploads[u].kind = "file"
    /\ uploads[u].pc = "returned"
    /\ uploads[u].result.status = "duplicated"
    /\ documents # <<>>
    /\ fetches # {}

\* C8: on either entry point a "duplicated" response surfaces exactly one
\* warning (and no error) and schedules nothing.
C8_DuplicateWarnsOnBothEntryPoints ==
  [][\A u \in UploadIds, out \in UploadOutcomes :
       (UploadRespond(u, out) /\ out.http = "ok" /\ out.status = "duplicated") =>
         /\ toasted' = <<"warning">>
         /\ UNCHANGED <<fetches, nextReq, timers, checks>>]_vars

\* C9: a submission answered with a non-success HTTP status returns the
\* failure outcome in that step, leaves the catalog and the indicator set as
\* they were, starts no fetch and no timer; no reconciliation sequence is ever
\* started for it.
C9_HttpErrorIsInert ==
  [][\A u \in UploadIds :
       /\ \A out \in UploadOutcomes :
            (UploadRespond(u, out) /\ out.http = "notok") =>
              /\ uploads'[u].result = NullResult
              /\ uploads'[u].pc = "returned"
              /\ UNCHANGED <<documents, processingDocuments, fetches, nextReq, timers,
                             checks>>
       /\ uploads'[u].http = "notok" =>
            /\ checks'[u] = NoCheck
            /\ {t \in timers' : t.u = u} = {}
            /\ {f \in fetches' : f.u = u} = {}]_vars

\* C9 witness: a submission refused with a non-success HTTP status has returned
\* while the catalog holds documents.
C9_Witness ==
  \E u \in UploadIds :
    /\ uploads[u].http = "notok"
    /\ uploads[u].pc = "returned"
    /\ uploads[u].result = NullResult
    /\ documents # <<>>

\* C10: a submission whose outcome is neither success nor duplicate (an
\* "error" body, or a transport failure) surfaces one error notification and
\* schedules nothing.
C10_OtherFailureToastsError ==
  [][\A u \in UploadIds, out \in UploadOutcomes :
       (UploadRespond(u, out) /\ (out.http # "ok" \/ out.status = "error")) =>
         /\ toasted' = <<"error">>
         /\ UNCHANGED <<fetches, nextReq, timers, checks>>]_vars

\* C11: whatever body the server answers a submission with (success,
\* duplicated or error, with or without a track_id), that body is what the
\* submit call returns, and it stays its result once set.
C11_ReturnsServerResponse ==
  [][\A u \in UploadIds :
       /\ \A out \in UploadOutcomes :
            (UploadRespond(u, out) /\ out.http = "ok") =>
              uploads'[u].result = [status |-> out.status, track |-> out.track]
       /\ uploads[u].pc \in {"refreshing", "returned"} =>
            uploads'[u].result = uploads[u].result]_vars

\* C11 witness: a submission answered with an "error" body that carries a
\* track_id has returned that body.
C11_Witness ==
  \E u \in UploadIds :
    /\ uploads[u].pc = "returned"
    /\ uploads[u].http = "ok"
    /\ uploads[u].result = [status |-> "error", track |-> TRUE]

\* The immediate refresh of submission u settles in this step.
ImmediateRefreshSettles(u) ==
  /\ uploads[u].pc = "refreshing"
  /\ uploads'[u].pc # "refreshing"

RefreshTimer(u) ==
  [kind |-> "refresh", u |-> u, attempts |-> 0, due |-> DelayedRefreshDelay]

FirstCheckTimer(u) ==
  [kind |-> "check", u |-> u, attempts |-> DefaultMaxAttempts, due |-> FirstCheckDelay]

\* C12: a "success" response triggers exactly one immediate refresh; when
\* that refresh has settled exactly one delayed refresh is scheduled, and a
\* reconciliation sequence is started if and only if the response carried a
\* track_id. Nothing else starts an immediate refresh, a delayed refresh or
\* a sequence, and a submission without a track_id never has a sequence.
C12_SuccessSchedulesRefreshes ==
  /\ [](\A u \in UploadIds :
          ~uploads[u].result.track => (checks[u] = NoCheck /\ CheckTimers(u) = {}))
  /\ [][\A u \in UploadIds :
          /\ \A out \in UploadOutcomes :
               (UploadRespond(u, out) /\ UploadBranch(uploads[u].kind, out) = "success") =>
                 /\ fetches' = fetches \cup {[req |-> nextReq, kind |-> "upload", u |-> u]}
                 /\ nextReq' = nextReq + 1
                 /\ UNCHANGED <<timers, checks>>
          /\ ImmediateRefreshSettles(u) =>
               /\ timers' \ timers =
                    {RefreshTimer(u)}
                      \cup (IF uploads[u].result.track THEN {FirstCheckTimer(u)} ELSE {})
               /\ timers \subseteq timers'
               /\ checks'[u].state = IF uploads[u].result.track THEN "waiting" ELSE "none"
               /\ {f \in fetches' : f.u = u} = {}
          /\ ~ImmediateRefreshSettles(u) =>
               /\ RefreshTimer(u) \notin timers' \ timers
               /\ (checks[u].state = "none" => checks'[u].state = "none")
          /\ (\E f \in fetches' \ fetches : f.kind = "upload" /\ f.u = u) =>
               \E out \in UploadOutcomes :
                 UploadRespond(u, out) /\ UploadBranch(uploads[u].kind, out) = "success"]_vars

\* C12 witness: both kinds of success have run, the immediate refresh has
\* settled and the timers are set: with a track_id the sequence waits for
\* its first poll, without one there is only the delayed refresh.
C12_Witness ==
  \E u \in UploadIds :
    /\ uploads[u].pc = "returned"
    /\ uploads[u].result.status = "success"
    /\ uploads[u].result.track
    /\ RefreshTimer(u) \in timers
    /\ FirstCheckTimer(u) \in timers
    /\ checks[u].state = "waiting"

\* C13: no status query for a tracking handle is issued while the submit
\* call that obtained it is still running, and a call whose sequence has
\* been started has returned: its return waits for no poll.
C13_SubmitReturnsBeforePolling ==
  \A u \in UploadIds :
    (checks[u].state # "none" \/ checks[u].queries > 0) => uploads[u].pc = "returned"

\* C13 witness: the submit call has returned while its sequence has not yet
\* issued its first status query.
C13_Witness ==
  \E u \in UploadIds :
    /\ uploads[u].pc = "returned"
    /\ uploads[u].result.track
    /\ checks[u].state = "waiting"
    /\ checks[u].queries = 0
    /\ FirstCheckTimer(u) \in timers

\* The elements of a sequence.
Range(seq) == {seq[i] : i \in 1..Len(seq)}

\* The ids of the catalog entries whose status is not terminal.
NonTerminalIds(docs) ==
  {docs[i].id : i \in {j \in 1..Len(docs) : docs[j].status \in {"processing", "pending"}}}

\* C14: the processing indicator set is the set of ids of the catalog
\* entries with a non-terminal status, in every reachable state.
C14_IndicatorDerivedFromCatalog ==
  Range(processingDocuments) = NonTerminalIds(documents)

\* C15: a failed delete-all request leaves the catalog as it was and makes
\* clearDocuments report false; starting the call empties nothing; only the
\* acknowledged request empties the catalog.
C15_ClearOnlyOnAcknowledge ==
  [][\A c \in ClearIds :
       /\ ClearStart(c) => UNCHANGED catalogVars
       /\ ClearRespond(c, FALSE) =>
            /\ UNCHANGED catalogVars
            /\ clears'[c].result = "false"
       /\ ClearRespond(c, TRUE) =>
            /\ documents' = <<>>
            /\ clears'[c].result = "true"]_vars

\* C15 witness: a clear whose request failed has reported false and the
\* catalog still holds its documents.
C15_Witness ==
  \E c \in ClearIds :
    /\ clears[c].pc = "done"
    /\ clears[c].result = "false"
    /\ documents # <<>>

DeleteRefreshTimer(d) ==
  [kind |-> "delrefresh", u |-> d, attempts |-> 0, due |-> DeleteRefreshDelay]

\* The refreshes that belong to deleteDocument call d: its timer, or the
\* list fetch the timer started.
DeleteRefreshes(d) ==
  {t \in timers : t.kind = "delrefresh" /\ t.u = d}
    \cup {f \in fetches : f.kind = "deltimer" /\ f.u = d}

\* C16: no step of deleteDocument changes the catalog or the processing
\* indicator set. An acknowledged delete schedules exactly one refresh, which
\* starts exactly one list fetch; a failed delete schedules none, and a call
\* that reported failure never has a refresh of its own.
C16_RemoveOnlyRefreshes ==
  /\ [](\A d \in DeleteIds :
          /\ deletes[d].result = "false" => DeleteRefreshes(d) = {}
          /\ Cardinality(DeleteRefreshes(d)) <= 1)
  /\ [][\A d \in DeleteIds :
          /\ (\E id \in Ids(documents) : DeleteStart(d, id)) =>
               UNCHANGED <<catalogVars, timers, fetches, nextReq>>
          /\ DeleteRespond(d, TRUE) =>
               /\ UNCHANGED <<catalogVars, fetches, nextReq>>
               /\ DeleteRefreshTimer(d) \notin timers
               /\ timers' = timers \cup {DeleteRefreshTimer(d)}
               /\ deletes'[d].result = "true"
          /\ DeleteRespond(d, FALSE) =>
               /\ UNCHANGED <<catalogVars, timers, fetches, nextReq>>
               /\ deletes'[d].result = "false"
          /\ \A t \in timers :
               (TimerFire(t) /\ t.kind = "delrefresh" /\ t.u = d) =>
                 /\ fetches' = fetches \cup {[req |-> nextReq, kind |-> "deltimer", u |-> d]}
                 /\ UNCHANGED catalogVars
          /\ (DeleteRefreshes(d) = {} /\ DeleteRefreshes(d)' # {}) =>
               DeleteRespond(d, TRUE)]_vars

\* C16 witness: the delete of a listed document was acknowledged, the list
\* fetch of its refresh is in flight and the catalog still lists the document.
C16_Witness ==
  \E d \in DeleteIds :
    /\ deletes[d].result = "true"
    /\ \E f \in fetches : f.kind = "deltimer" /\ f.u = d
    /\ deletes[d].id \in Ids(documents)

\* Every id a list-status response reports, whatever its partition.
ResponseIds(statuses) ==
  UNION {Ids(Part(statuses, name)) : name \in StatusKeys}

C18_EveryPartitionListed ==
  [][\A f \in fetches, statuses \in ListResponses :
       ListRespond(f, TRUE, statuses) =>
         documents' = Part(statuses, "processed") \o Part(statuses, "processing")
                        \o Part(statuses, "failed") \o Part(statuses, "pending")]_vars

\* The document lists a refresh can build from a list-status response.
ResponseLists == {AllDocs(statuses) : statuses \in ListResponses}

BothResolvedAndQuiet ==
  /\ \A u \in TwoIds :
       /\ uploads[u].pc = "returned"
       /\ uploads[u].result = [status |-> "success", track |-> TRUE]
       /\ checks[u].state = "done"
       /\ checks[u].outcome = "complete"
  /\ timers = {}
  /\ fetches = {}
  /\ ~anyListFailed

\* C20: once two accepted submissions have both been reconciled and every
\* refresh they triggered has completed, the catalog lists the documents of
\* both, whatever the order in which refreshes and polls were answered.
C20_BothDocumentsListed ==
  BothResolvedAndQuiet => {DocId(u) : u \in TwoIds} \subseteq Ids(documents)

\* A step of the reconciliation sequence of handle u: its timer fires and the
\* status query is issued, the query is answered, or its final refresh settles.
SequenceStep(u) ==
  \/ \E t \in timers : t.kind = "check" /\ t.u = u /\ TimerFire(t)
  \/ \E out \in StatusOutcomes : StatusRespond(u, out)
  \/ \E f \in fetches : f.kind = "check" /\ f.u = u /\ fetches' = fetches \ {f}

\* C21: a step of the sequence of one tracking handle leaves the state, the
\* remaining budget and the pending timers of the sequence of every other
\* handle as they were.
C21_SequencesIndependent ==
  [][\A u \in TwoIds, v \in TwoIds :
       (u # v /\ SequenceStep(u)) =>
         /\ checks'[v] = checks[v]
         /\ {t \in timers' : t.kind = "check" /\ t.u = v} = CheckTimers(v)]_vars

\* C21 witness: two sequences are under way with different budgets left,
\* one waiting for its timer and one waiting for its answer.
C21_Witness ==
  \E u \in TwoIds, v \in TwoIds :
    /\ checks[u].state = "waiting"
    /\ checks[v].state = "querying"
    /\ checks[u].queries > 1
    /\ checks[v].queries > 1
    /\ checks[u].attempts # checks[v].attempts

\* The most status queries a sequence issues: one per attempt of the budget
\* and the one that finds the budget used up.
MostQueries == DefaultMaxAttempts + 1

\* The sequence of handle u polls no more.
Terminated(u) == CheckEnded(u) /\ CheckTimers(u) = {}

\* C22: a sequence never issues more than a bounded number of status
\* queries, and, every status query being answered, a started sequence
\* reaches a state in which it polls no more, whatever the answers are.
C22_SequenceTerminates ==
  /\ [](\A u \in UploadIds : checks[u].queries <= MostQueries)
  /\ \A u \in UploadIds : (checks[u].state = "waiting") ~> Terminated(u)

\* C22 witness: a sequence that was told "still processing" at every query
\* has used its whole budget and has stopped.
C22_Witness ==
  \E u \in UploadIds :
    /\ Terminated(u)
    /\ checks[u].streak >= DefaultMaxAttempts
    /\ checks[u].outcome = "unclear"

\* C23: the step in which a sequence gives up, because its status query
\* failed or because the answer leaves it nothing to wait for (the budget is
\* used up), shows no notification; nor does the step that issues a query.
C23_ExhaustionIsSilent ==
  [][\A u \in UploadIds :
       /\ \A out \in StatusOutcomes :
            (StatusRespond(u, out) /\ checks'[u].outcome \in {"failed", "unclear"}) =>
              toasted' = <<>>
       /\ \A t \in timers :
            (t.kind = "check" /\ t.u = u /\ TimerFire(t)) => toasted' = <<>>]_vars

\* C23 witness: a sequence has ended on a failed status query after it had
\* polled before.
C23_Witness ==
  \E u \in UploadIds :
    /\ Terminated(u)
    /\ checks[u].outcome = "failed"
    /\ checks[u].queries > 1

\* C24: processingDocuments changes only in the step in which a successful
\* list-status response replaces the catalog, and then to the processing ids
\* of that response; submit, remove, clear, status poll and failed refresh
\* leave it as it was.
C24_IndicatorOnlyFromRefresh ==
  [][processingDocuments' # processingDocuments =>
       \E f \in fetches, statuses \in ListResponses :
         /\ ListRespond(f, TRUE, statuses)
         /\ documents' = AllDocs(statuses)
         /\ Range(processingDocuments') = Ids(Part(statuses, "processing"))]_vars

\* C24 witness: with a document listed as processing, a submission has been
\* reconciled, a remove and a clear were acknowledged, and the indicator set
\* still names the document.
C24_Witness ==
  /\ processingDocuments # <<>>
  /\ documents = <<>>
  /\ \E u \in UploadIds : checks[u].state = "done"
  /\ \E d \in DeleteIds : deletes[d].result = "true"
  /\ \E c \in ClearIds : clears[c].result = "true"

\* The text submission was accepted with a tracking handle, its sequence has
\* resolved, and no refresh is scheduled or in flight.
TraceEnded ==
  /\ uploads[TraceHandle].kind = "text"
  /\ uploads[TraceHandle].result = [status |-> "success", track |-> TRUE]
  /\ checks[TraceHandle].state = "done"
  /\ checks[TraceHandle].outcome = "complete"
  /\ checks[TraceHandle].queries >= PollsUntilTerminal
  /\ timers = {}
  /\ fetches = {}

\* C25: at the end of the trace the catalog holds exactly the submitted
\* document, processed with chunk count 1, and the indicator set is empty.
C25_TraceEndsProcessed ==
  TraceEnded =>
    /\ documents = <<NoteDoc("processed", 1)>>
    /\ processingDocuments = <<>>

\* C25 witness: the trace has ended with the terminal answer at the third
\* poll, after the delayed refresh had listed the document as processing.
C25_Witness ==
  /\ TraceEnded
  /\ checks[TraceHandle].queries = PollsUntilTerminal
  /\ checks[TraceHandle].refreshes = 1
  /\ documents # <<>>

\* List fetch f was started before clearDocuments call c began.
StartedBeforeClear(f, c) == f.req < clearFrom[c]

\* C26: once a clear has been acknowledged, the answer to a list fetch that
\* was started before the clear began does not put documents back into the
\* empty catalog.
C26_StaleAnswerKeepsCatalogEmpty ==
  [][\A f \in fetches, statuses \in ListResponses, c \in ClearIds :
       (/\ clears[c].result = "true"
        /\ StartedBeforeClear(f, c)
        /\ documents = <<>>
        /\ ListRespond(f, TRUE, statuses)) => documents' = <<>>]_vars

\* C27: a list fetch that fails leaves the catalog and the indicator set as
\* they were, shows one error notification, and makes listDocuments return
\* the empty list.
C27_FailedRefreshIsInert ==
  [][\A f \in fetches :
       ListRespond(f, FALSE, [processed |-> <<>>]) =>
         /\ UNCHANGED catalogVars
         /\ toasted' = <<"error">>
         /\ returned' = <<>>]_vars

\* C27 witness: the refresh that settled last has failed after an earlier
\* one had filled the catalog: the catalog is still filled, the call
\* returned the empty list and the error is shown.
C27_Witness ==
  /\ anyListFailed
  /\ toasted = <<"error">>
  /\ returned = <<>>
  /\ documents # <<>>
  /\ processingDocuments # <<>>

\* Neither a processed nor a processing document is reported.
NothingToWaitFor(s) == Count(s, "processed") = 0 /\ Count(s, "processing") = 0

\* C28: a status answer that reports neither a processed nor a processing
\* document ends the polling in that step, whatever budget is left: one
\* catalog refresh is triggered and no timer is set; and a sequence that
\* ended this way issues no further query and no further refresh.
C28_NothingReportedStopsPolling ==
  [][\A u \in UploadIds :
       /\ \A out \in StatusOutcomes :
            (StatusRespond(u, out) /\ out.http = "ok" /\ NothingToWaitFor(out.summary)) =>
              /\ checks'[u].outcome = "unclear"
              /\ checks'[u].state = "refreshing"
              /\ checks'[u].refreshes = checks[u].refreshes + 1
              /\ fetches' = fetches \cup {[req |-> nextReq, kind |-> "check", u |-> u]}
              /\ timers' = timers
       /\ checks[u].outcome = "unclear" =>
            /\ checks'[u].outcome = "unclear"
            /\ checks'[u].queries = checks[u].queries
            /\ checks'[u].refreshes = 1
            /\ checks'[u].state \in {"refreshing", "done"}
            /\ {t \in timers' : t.kind = "check" /\ t.u = u} = {}]_vars

\* C28 witness: a sequence with budget left was told, after an earlier
\* "still processing", that nothing is processed or processing, and ended.
C28_Witness ==
  \E u \in UploadIds :
    /\ checks[u].outcome = "unclear"
    /\ checks[u].state = "done"
    /\ checks[u].streak = 0
    /\ checks[u].attempts > 0
    /\ checks[u].queries > 1

\* C29: a sequence triggers at most one catalog refresh, and none while it
\* is waiting for its timer or for a status answer.
C29_AtMostOneRefreshPerSequence ==
  \A u \in UploadIds :
    /\ checks[u].refreshes <= 1
    /\ checks[u].state \in {"waiting", "querying"} => checks[u].refreshes = 0

\* C29 witness: a sequence that polled until its budget was used up has
\* ended with its one refresh completed.
C29_Witness ==
  \E u \in UploadIds :
    /\ checks[u].state = "done"
    /\ checks[u].refreshes = 1
    /\ checks[u].queries = MostQueries

\* The delayed refresh of submission u is still waiting for its timer.
DelayedRefreshPending(u) == \E t \in timers : t.kind = "refresh" /\ t.u = u

\* C30: the delayed refresh and the reconciliation of a submission are
\* scheduled only when its immediate refresh has settled, and the delayed
\* refresh has been started when the first status query is issued.
C30_SubmissionStepsOrdered ==
  \A u \in UploadIds :
    /\ (DelayedRefreshPending(u) \/ CheckTimers(u) # {} \/ checks[u].state # "none") =>
         /\ uploads[u].pc = "returned"
         /\ \A f \in fetches : ~(f.kind = "upload" /\ f.u = u)
    /\ (checks[u].queries > 0 \/ checks[u].state = "querying") => ~DelayedRefreshPending(u)

\* C30 witness: the list fetch of the delayed refresh is in flight while the
\* first status query still waits for its timer.
C30_Witness ==
  \E u \in UploadIds :
    /\ uploads[u].pc = "returned"
    /\ ~DelayedRefreshPending(u)
    /\ \E f \in fetches : f.kind = "timer" /\ f.u = u
    /\ CheckTimers(u) # {}
    /\ checks[u].queries = 0

\* C31: documentsLoading is true exactly when a list-status fetch is in
\* flight, also when several refreshes overlap.
C31_LoadingFlagTracksFetches ==
  documentsLoading = (fetches # {})

\* A submit call that has not returned yet.
InFlight(u) == uploads[u].pc \in {"posting", "refreshing"}

\* C32: uploading is true exactly when a submit call is in flight, also when
\* two submissions overlap.
C32_UploadingFlagTracksSubmissions ==
  uploading = (\E u \in TwoIds : InFlight(u))

\* C33: every request the hook has issued has a path under /api/rag.
C33_RequestsUnderProxy ==
  \A q \in requests : UnderProxy(q.path)

\* Some file of the batch was uploaded with status "success".
SomeSuccess == \E i \in 1..batch.k : uploads[i].result.status = "success"

\* C34: the files of a batch are submitted one after another, the next only
\* when the previous uploadFile call, its immediate refresh included, has
\* returned; and leaving the loop triggers one extra refresh if some
\* submission returned "success" and none otherwise. No other step of the
\* handler triggers a refresh.
C34_BatchIsSequential ==
  /\ [](\A i \in BatchIds :
          /\ (i + 1 \in BatchIds /\ uploads[i + 1].pc # "idle") =>
               (uploads[i].pc = "returned" /\ \A f \in fetches : ~(f.kind = "upload" /\ f.u = i))
          /\ uploads[i].pc # "idle" => i <= batch.k)
  /\ [][/\ (batch.pc # "finished" /\ batch'.pc = "finished") =>
            /\ \A i \in 1..batch.k : uploads[i].pc = "returned"
            /\ fetches' \ fetches =
                 IF SomeSuccess THEN {[req |-> nextReq, kind |-> "ui", u |-> 0]} ELSE {}
            /\ fetches \subseteq fetches'
        /\ (\E f \in fetches' \ fetches : f.kind = "ui") =>
            (batch.pc # "finished" /\ batch'.pc = "finished")]_vars

\* C34 witness: a batch of two files has finished in which the first upload
\* failed and the second succeeded, and the extra refresh was triggered.
C34_Witness ==
  /\ batch.pc = "finished"
  /\ batch.k > 1
  /\ uploads[1].result = NullResult
  /\ uploads[batch.k].result.status = "success"
  /\ batch.successCount = 1
  /\ batch.extra = 1

\* C35: once defaults were installed for an agent by setDefaultConfig, the
\* agent's configuration equals those defaults whenever the last call on the
\* agent was resetConfig, however many updateConfig and resetConfig calls
\* came before it.
C35_ResetRestoresDefaults ==
  \A a \in AgentIds :
    (configLog[a].installed /\ configLog[a].last = "reset") =>
      getAgentConfig(configsByAgentId, a) = configLog[a].defaults

\* C36: setDefaultConfig leaves the store as it is when the agent already has
\* an entry, whichever call created it; calling it once more after any call
\* of it changes nothing; and it never changes another agent's entry.
C36_SetDefaultNeverOverwrites ==
  [][\A a \in AgentIds, d \in [Keys -> Values \cup {Missing}] :
       SetDefaultConfig(a, d) =>
         /\ configsByAgentId[a].present => configsByAgentId' = configsByAgentId
         /\ \A d2 \in [Keys -> Values \cup {Missing}] :
              setDefaultConfig(configsByAgentId', a, d2) = configsByAgentId'
         /\ \A b \in AgentIds \ {a} : configsByAgentId'[b] = configsByAgentId[b]]_vars

\* C36 witness: setDefaultConfig was the last call on an agent whose entry
\* was created by updateConfig and still holds only the updated key, while
\* another agent has an entry too.
C36_Witness ==
  \E a \in AgentIds :
    /\ configLog[a].last = "setDefault"
    /\ ~configLog[a].installed
    /\ configsByAgentId[a].present
    /\ ~configsByAgentId[a].hasDefaults
    /\ \E k \in Keys : configsByAgentId[a].vals[k] = Missing
    /\ \E b \in AgentIds \ {a} : configsByAgentId[b].present

====
